---- MODULE Spec2Model ----
(***************************************************************************)
(* A model of xml.h, a header-only XML parser: the single-pass scanner of  *)
(* xml_parse_string / parse_tag, the tree of XMLNode / XMLList / XMLAttr   *)
(* it builds, and the queries over that tree (xml_node_child_at,           *)
(* xml_node_attr, xml_node_find_tag, xml_node_find_by_path).               *)
(*                                                                         *)
(* Strings are sequences of one-character strings.  A node pointer is the  *)
(* index of the node in the heap `nodes`; NULL is 0.  The input buffer is  *)
(* `xml` (0-based as in C through At), followed by its terminator and by   *)
(* memory the program does not own, `tail`, whose bytes are fixed the      *)
(* first time the scanner reads them.                                      *)
(***************************************************************************)
EXTENDS Naturals, Integers, Sequences, FiniteSets, TLC

VARIABLES
  xml,          \* the input buffer, without its terminator
  top,          \* the names of the top-level elements written in xml, in order
  tail,         \* the bytes read so far behind the terminator
  idx,          \* size_t idx: the cursor
  pc,           \* the scanner's position in the code
  depth,        \* number of parse_tag calls suspended at line 308
  curr_node,    \* XMLNode *curr_node
  nodes,        \* the heap of XMLNode
  tag_start, attr_start, value_start, text_start, quote, attr_key,
  call,         \* the last query made of the tree
  ret,          \* what that query returned
  thr,          \* the threads of concurrent queries
  bufs,         \* the strdup'ed path of each thread
  olds,         \* strtok's static save pointer
  mallocs       \* number of blocks got from malloc, strdup, strndup and not freed

scanv  == <<xml, top, tail, idx, pc, depth, curr_node>>
localv == <<tag_start, attr_start, value_start, text_start, quote, attr_key>>
queryv == <<call, ret>>
concv  == <<thr, bufs, olds>>
vars   == <<xml, top, tail, idx, pc, depth, curr_node, nodes,
            tag_start, attr_start, value_start, text_start, quote, attr_key,
            call, ret, thr, bufs, olds, mallocs>>

(***************************************************************************)
(* Bounds of the model.                                                    *)
(***************************************************************************)
\* top-level elements of a generated document
MaxTop == 2
\* bytes behind the terminator that are mapped memory; a read further out faults
MaxOver == 1
\* nodes of a generated tree handed to the queries
MaxNodes == 3
\* attribute pairs of a node handed to xml_node_attr
MaxAttrs == 2
\* largest index handed to xml_node_child_at
MaxIdx == 3
\* segments of a path handed to xml_node_find_by_path
MaxSegs == 2

(***************************************************************************)
(* C values.                                                               *)
(***************************************************************************)
NULL == 0
\* a char * that is NULL (a string is a sequence, so its NULL is one too)
NullStr == <<"NULL">>
\* the terminator '\0'
NUL == "NUL"
\* size_t is modelled 16 bits wide: 0 - 1 wraps to the largest value as in C
SIZE_BITS == 16
SizeT(x) == x % (2 ^ SIZE_BITS)

\* a TLA+ string as a C string
Chars(s) == [i \in 1..Len(s) |-> SubSeq(s, i, i)]

\* isspace() of <ctype.h> in the "C" locale
isspace(c) == c \in {" ", "\t", "\n", "\r", "\f"}

\* strcmp(a, b) == 0: the bytes up to the first terminator agree
RECURSIVE strcmp0(_, _)
strcmp0(a, b) ==
  IF a = <<>> \/ b = <<>> THEN a = <<>> /\ b = <<>>
  ELSE Head(a) = Head(b) /\ strcmp0(Tail(a), Tail(b))

\* a is a prefix of b (strncmp(a, b, strlen(a)) == 0)
RECURSIVE prefix(_, _)
prefix(a, b) ==
  IF a = <<>> THEN TRUE
  ELSE IF b = <<>> THEN FALSE
  ELSE Head(a) = Head(b) /\ prefix(Tail(a), Tail(b))

\* strstr(haystack, needle) != NULL
RECURSIVE strstr(_, _)
strstr(haystack, needle) ==
  IF prefix(needle, haystack) THEN TRUE
  ELSE IF haystack = <<>> THEN FALSE
  ELSE strstr(Tail(haystack), needle)

(***************************************************************************)
(* The buffer.                                                             *)
(***************************************************************************)
\* the classes of byte the scanner tells apart, for memory it does not own
Garbage == {"<", ">", "/", "=", "!", "-", "?", "'", " ", "x", NUL}

\* xml[i], with t the bytes known behind the terminator
At(t, i) ==
  IF i < Len(xml) THEN xml[i + 1]
  ELSE IF i = Len(xml) THEN NUL
  ELSE t[i - Len(xml)]

\* index i lies behind the terminator and has not been read yet
Unread(t, i) == i > Len(xml) + Len(t)

\* the ways memory can answer a read of xml[i]: the tail, grown to hold i.
\* Nothing is mapped more than MaxOver bytes behind the terminator.
Ext(t, i) ==
  IF ~Unread(t, i) THEN {t}
  ELSE IF i > Len(xml) + MaxOver THEN {}
  ELSE {t \o s : s \in [1..(i - Len(xml) - Len(t)) -> Garbage]}

\* strndup(xml + start, n): at most n bytes, stopping at a terminator
RECURSIVE strndup(_, _, _)
strndup(t, start, n) ==
  IF n = 0 \/ At(t, start) = NUL THEN <<>>
  ELSE <<At(t, start)>> \o strndup(t, start + 1, n - 1)

(***************************************************************************)
(* XMLList and XMLNode.                                                    *)
(***************************************************************************)
xml_list_new == [size |-> 1, len |-> 0, data |-> <<>>]

xml_list_add(list, data) ==
  [size |-> IF list.len >= list.size THEN list.size * 2 ELSE list.size,
   len  |-> list.len + 1,
   data |-> Append(list.data, data)]

\* the heap after xml_node_new(parent); the new node is Len(ns) + 1
xml_node_new(ns, parent) ==
  LET node == [tag |-> NullStr, text |-> NullStr, parent |-> parent,
               children |-> xml_list_new, attrs |-> xml_list_new]
      ns1  == IF parent # NULL
              THEN [ns EXCEPT ![parent].children = xml_list_add(@, Len(ns) + 1)]
              ELSE ns
  IN  Append(ns1, node)

\* the heap after xml_node_add_attr(node, key, value)
xml_node_add_attr(ns, node, key, value) ==
  [ns EXCEPT ![node].attrs = xml_list_add(@, [key |-> key, value |-> value])]

(***************************************************************************)
(* The scanner: xml_parse_string and its helpers, one action per loop      *)
(* iteration or branch.  parse_tag's recursive call at line 308 ignores    *)
(* the callee's result and keeps no local alive across the call, so the    *)
(* call stack is the number of suspended calls, depth.                     *)
(***************************************************************************)
Running == pc \notin {"done", "crashed"}

\* a return of parse_tag with value v and the cursor at i: to line 310 of a
\* suspended call, or to lines 400-403 of xml_parse_string
Return(i, v) ==
  /\ depth' = IF depth > 0 THEN depth - 1 ELSE 0
  /\ pc' = IF depth > 0 THEN "text_scan" ELSE "loop"
  /\ idx' = IF depth = 0 /\ v THEN i + 1 ELSE i
  /\ text_start' = IF depth > 0 THEN i ELSE text_start

\* lines 384-392 and 403: one iteration of the outer loop
xml_parse_string_loop ==
  /\ pc = "loop"
  /\ \E t \in Ext(tail, idx) :
       LET c == At(t, idx) IN
       /\ tail' = t
       /\ pc' = IF c = NUL THEN "done" ELSE IF c = "<" THEN "skip_spaces" ELSE "loop"
       /\ idx' = IF c = NUL THEN idx ELSE idx + 1
  /\ UNCHANGED <<xml, top, depth, curr_node, nodes, localv, queryv, concv, mallocs>>

\* lines 394-395
xml_parse_string_spaces ==
  /\ pc = "skip_spaces"
  /\ \E t \in Ext(tail, idx) :
       /\ tail' = t
       /\ pc' = IF isspace(At(t, idx)) THEN "skip_spaces" ELSE "parse_comment"
       /\ idx' = IF isspace(At(t, idx)) THEN idx + 1 ELSE idx
  /\ UNCHANGED <<xml, top, depth, curr_node, nodes, localv, queryv, concv, mallocs>>

\* line 258: the test of parse_comment, left to right
parse_comment ==
  /\ pc = "parse_comment"
  /\ \E t0 \in Ext(tail, idx) :
       IF At(t0, idx) # "!" THEN tail' = t0 /\ pc' = "parse_pi"
       ELSE \E t1 \in Ext(t0, idx + 1) :
              IF At(t1, idx + 1) # "-" THEN tail' = t1 /\ pc' = "parse_pi"
              ELSE \E t2 \in Ext(t1, idx + 2) :
                     /\ tail' = t2
                     /\ pc' = IF At(t2, idx + 2) = "-" THEN "comment_scan" ELSE "parse_pi"
  /\ UNCHANGED <<xml, top, idx, depth, curr_node, nodes, localv, queryv, concv, mallocs>>

\* lines 260-262, then line 397
parse_comment_scan ==
  /\ pc = "comment_scan"
  /\ \E t \in Ext(tail, idx) :
       LET end == At(t, idx) = ">" /\ At(t, idx - 1) = "-" /\ At(t, idx - 2) = "-" IN
       /\ tail' = t
       /\ idx' = idx + 1
       /\ pc' = IF end THEN "loop" ELSE "comment_scan"
  /\ UNCHANGED <<xml, top, depth, curr_node, nodes, localv, queryv, concv, mallocs>>

\* line 245
parse_processing_instruction ==
  /\ pc = "parse_pi"
  /\ \E t \in Ext(tail, idx) :
       /\ tail' = t
       /\ pc' = IF At(t, idx) = "?" THEN "pi_scan" ELSE "tag_spaces"
  /\ UNCHANGED <<xml, top, idx, depth, curr_node, nodes, localv, queryv, concv, mallocs>>

\* lines 246-248, then line 399
parse_processing_instruction_scan ==
  /\ pc = "pi_scan"
  /\ \E t \in Ext(tail, idx) :
       LET end == At(t, idx) = ">" /\ At(t, idx - 1) = "?" IN
       /\ tail' = t
       /\ idx' = idx + 1
       /\ pc' = IF end THEN "loop" ELSE "pi_scan"
  /\ UNCHANGED <<xml, top, depth, curr_node, nodes, localv, queryv, concv, mallocs>>

\* lines 274-292: skip spaces, then an end tag or a new node
parse_tag_spaces ==
  /\ pc = "tag_spaces"
  /\ \E t \in Ext(tail, idx) :
       LET c == At(t, idx) IN
       /\ tail' = t
       /\ idx' = IF isspace(c) THEN idx + 1 ELSE idx
       /\ pc' = IF isspace(c) THEN "tag_spaces"
                ELSE IF c = "/" THEN "end_scan" ELSE "name_scan"
       /\ nodes' = IF isspace(c) \/ c = "/" THEN nodes ELSE xml_node_new(nodes, curr_node)
       /\ curr_node' = IF isspace(c) \/ c = "/" THEN curr_node ELSE Len(nodes) + 1
       /\ tag_start' = IF isspace(c) \/ c = "/" THEN tag_start ELSE idx
       \* lines 128-133: the node, its two lists and their data
       /\ mallocs' = IF isspace(c) \/ c = "/" THEN mallocs ELSE mallocs + 5
  /\ UNCHANGED <<xml, top, depth, attr_start, value_start, text_start, quote, attr_key,
                 queryv, concv>>

\* lines 279-285: an end tag; the current node becomes its parent
parse_tag_end ==
  /\ pc = "end_scan"
  /\ \E t \in Ext(tail, idx) :
       /\ tail' = t
       /\ IF At(t, idx) # ">"
          THEN /\ idx' = idx + 1
               /\ UNCHANGED <<pc, depth, curr_node, text_start>>
          ELSE IF curr_node = NULL
          THEN /\ pc' = "crashed"
               /\ idx' = idx + 1
               /\ UNCHANGED <<depth, curr_node, text_start>>
          ELSE /\ curr_node' = nodes[curr_node].parent
               /\ Return(idx + 1, FALSE)
  /\ UNCHANGED <<xml, top, nodes, tag_start, attr_start, value_start, quote, attr_key,
                 queryv, concv, mallocs>>

\* lines 293-299, 318-320, 327: the tag name, then the kind of tag
parse_tag_name ==
  /\ pc = "name_scan"
  /\ \E t \in Ext(tail, idx) :
       LET c == At(t, idx) IN
       /\ tail' = t
       /\ IF ~(isspace(c) \/ c = ">" \/ c = "/")
          THEN /\ idx' = idx + 1
               /\ UNCHANGED <<pc, nodes, curr_node, mallocs>>
          ELSE /\ nodes' = [nodes EXCEPT ![curr_node].tag = strndup(t, tag_start, idx - tag_start)]
               /\ mallocs' = mallocs + 1
               /\ idx' = IF c = ">" THEN idx + 1 ELSE idx
               /\ pc' = IF c = ">" THEN "open_spaces"
                        ELSE IF c = "/" THEN "self_closing" ELSE "attr_spaces"
               /\ curr_node' = IF c = "/" THEN nodes[curr_node].parent ELSE curr_node
  /\ UNCHANGED <<xml, top, depth, localv, queryv, concv>>

\* lines 301-310: after "<tag>": an empty tag, a sub-tag or inner text
parse_tag_open ==
  /\ pc = "open_spaces"
  /\ \E t0 \in Ext(tail, idx) :
       LET c == At(t0, idx) IN
       IF isspace(c)
       THEN /\ tail' = t0
            /\ idx' = idx + 1
            /\ UNCHANGED <<pc, depth, text_start>>
       ELSE IF c # "<"
       THEN /\ tail' = t0
            /\ text_start' = idx
            /\ pc' = "text_scan"
            /\ UNCHANGED <<idx, depth>>
       ELSE \E t1 \in Ext(t0, idx + 1) :
              /\ tail' = t1
              /\ IF At(t1, idx + 1) = "/"
                 THEN Return(idx, TRUE)
                 ELSE /\ depth' = depth + 1
                      /\ pc' = "tag_spaces"
                      /\ UNCHANGED <<idx, text_start>>
  /\ UNCHANGED <<xml, top, curr_node, nodes, tag_start, attr_start, value_start, quote,
                 attr_key, queryv, concv, mallocs>>

\* lines 311-315: the inner text, up to the byte before "</"
parse_tag_text ==
  /\ pc = "text_scan"
  /\ \E t1 \in Ext(tail, idx + 1) :
       LET Step(t, end) ==
             /\ tail' = t
             /\ IF ~end
                THEN /\ idx' = idx + 1
                     /\ UNCHANGED <<pc, depth, nodes, text_start, mallocs>>
                ELSE IF curr_node = NULL
                THEN /\ pc' = "crashed"
                     /\ UNCHANGED <<idx, depth, nodes, text_start, mallocs>>
                ELSE /\ nodes' = [nodes EXCEPT ![curr_node].text =
                                    strndup(t, text_start, idx + 1 - text_start)]
                     /\ mallocs' = mallocs + 1
                     /\ Return(idx, TRUE)
       IN IF At(t1, idx + 1) # "<" THEN Step(t1, FALSE)
          ELSE \E t2 \in Ext(t1, idx + 2) : Step(t2, At(t2, idx + 2) = "/")
  /\ UNCHANGED <<xml, top, curr_node, tag_start, attr_start, value_start, quote, attr_key,
                 queryv, concv>>

\* lines 321-324, 335-338, 364-367: the rest of a self-closing tag
parse_tag_self_closing ==
  /\ pc = "self_closing"
  /\ \E t \in Ext(tail, idx) :
       /\ tail' = t
       /\ IF At(t, idx) # ">"
          THEN /\ idx' = idx + 1
               /\ UNCHANGED <<pc, depth, text_start>>
          ELSE Return(idx + 1, FALSE)
  /\ UNCHANGED <<xml, top, curr_node, nodes, tag_start, attr_start, value_start, quote,
                 attr_key, queryv, concv, mallocs>>

\* lines 329-334: the spaces after the tag name, then "/" or attributes
parse_tag_attr_spaces ==
  /\ pc = "attr_spaces"
  /\ \E t \in Ext(tail, idx) :
       LET c == At(t, idx) IN
       /\ tail' = t
       /\ idx' = IF isspace(c) THEN idx + 1 ELSE idx
       /\ pc' = IF isspace(c) THEN "attr_spaces"
                ELSE IF c = "/" THEN "self_closing" ELSE "attr_loop"
       /\ curr_node' = IF c = "/" THEN nodes[curr_node].parent ELSE curr_node
  /\ UNCHANGED <<xml, top, depth, nodes, localv, queryv, concv, mallocs>>

\* lines 341-343 and 361-373: the head of the attribute loop and what follows it
parse_tag_attr_loop ==
  /\ pc = "attr_loop"
  /\ \E t \in Ext(tail, idx) :
       LET c == At(t, idx) IN
       /\ tail' = t
       /\ IF c = "/"
          THEN /\ curr_node' = nodes[curr_node].parent
               /\ pc' = "self_closing"
               /\ UNCHANGED <<idx, depth, text_start, attr_start>>
          ELSE IF c = ">"
          THEN /\ Return(idx + 1, TRUE)
               /\ UNCHANGED <<curr_node, attr_start>>
          ELSE /\ attr_start' = idx
               /\ pc' = "key_scan"
               /\ UNCHANGED <<idx, depth, text_start, curr_node>>
  /\ UNCHANGED <<xml, top, nodes, tag_start, value_start, quote, attr_key, queryv, concv, mallocs>>

\* lines 344-347: the attribute key, up to "="
parse_tag_attr_key ==
  /\ pc = "key_scan"
  /\ \E t \in Ext(tail, idx) :
       /\ tail' = t
       /\ idx' = idx + 1
       /\ IF At(t, idx) # "="
          THEN UNCHANGED <<pc, attr_key, mallocs>>
          ELSE /\ attr_key' = strndup(t, attr_start, idx - attr_start)
               /\ mallocs' = mallocs + 1
               /\ pc' = "attr_quote"
  /\ UNCHANGED <<xml, top, depth, curr_node, nodes, tag_start, attr_start, value_start,
                 text_start, quote, queryv, concv>>

\* lines 349-350: the byte after "=" is taken as the quote
parse_tag_attr_quote ==
  /\ pc = "attr_quote"
  /\ \E t \in Ext(tail, idx) :
       /\ tail' = t
       /\ quote' = At(t, idx)
       /\ value_start' = idx
       /\ pc' = "value_scan"
  /\ UNCHANGED <<xml, top, idx, depth, curr_node, nodes, tag_start, attr_start, text_start,
                 attr_key, queryv, concv, mallocs>>

\* lines 351-355: the attribute value, scanned from value_start
parse_tag_attr_value ==
  /\ pc = "value_scan"
  /\ \E t \in Ext(tail, idx) :
       /\ tail' = t
       /\ idx' = idx + 1
       /\ IF At(t, idx) # quote \/ (At(t, idx) = quote /\ At(t, idx - 1) = "\\")
          THEN UNCHANGED <<pc, nodes, mallocs>>
          ELSE /\ nodes' = xml_node_add_attr(nodes, curr_node, attr_key,
                                             strndup(t, value_start, idx - value_start))
               \* line 353: the value; line 141: the XMLAttr
               /\ mallocs' = mallocs + 2
               /\ pc' = "attr_sep"
  /\ UNCHANGED <<xml, top, depth, curr_node, localv, queryv, concv>>

\* lines 357-358: spaces between attributes
parse_tag_attr_sep ==
  /\ pc = "attr_sep"
  /\ \E t \in Ext(tail, idx) :
       /\ tail' = t
       /\ idx' = IF isspace(At(t, idx)) THEN idx + 1 ELSE idx
       /\ pc' = IF isspace(At(t, idx)) THEN "attr_sep" ELSE "attr_loop"
  /\ UNCHANGED <<xml, top, depth, curr_node, nodes, localv, queryv, concv, mallocs>>

\* the first index the scanner reads next
NextRead == IF pc = "text_scan" THEN idx + 1 ELSE idx

\* a read behind the terminator of memory that is not mapped
Segfault ==
  /\ Running
  /\ IF Unread(tail, NextRead) THEN TRUE
     ELSE IF pc \in {"text_scan", "open_spaces"}
     THEN At(tail, NextRead) = "<" /\ Unread(tail, NextRead + 1)
     ELSE IF pc = "parse_comment" /\ At(tail, idx) = "!"
     THEN IF Unread(tail, idx + 1) THEN TRUE
          ELSE At(tail, idx + 1) = "-" /\ Unread(tail, idx + 2)
     ELSE FALSE
  /\ pc' = "crashed"
  /\ UNCHANGED <<xml, top, tail, idx, depth, curr_node, nodes, localv, queryv, concv, mallocs>>

(***************************************************************************)
(* The documents handed to xml_parse_string.                               *)
(***************************************************************************)
\* the name of the i-th top-level element of a generated document
Names == <<"a", "b", "c", "d">>

\* the forms of a top-level element named n
Forms(n) ==
  { "<" \o n \o "/>",
    "<" \o n \o " />",
    "<" \o n \o "></" \o n \o ">",
    "<" \o n \o ">x y</" \o n \o ">",
    "<" \o n \o "> x </" \o n \o ">",
    "<" \o n \o "> </" \o n \o ">",
    "<" \o n \o "><i/></" \o n \o ">",
    "<" \o n \o "><i>x</i><j/></" \o n \o ">",
    "<" \o n \o " k='v'/>",
    "<" \o n \o " k='v' j='w' />",
    "<" \o n \o " k='v'>x</" \o n \o ">" }

\* what may precede the top-level elements
Prologs == {"", "<?xml version='1.0'?>\n<!-- c -->"}

\* the documents of n top-level elements, each of any form
RECURSIVE Bodies(_)
Bodies(n) ==
  IF n = 0 THEN {""}
  ELSE {b \o f : b \in Bodies(n - 1), f \in Forms(Names[n])}

Generated ==
  UNION {{[xml |-> Chars(p \o b), top |-> [i \in 1..n |-> Chars(Names[i])]] :
            p \in Prologs, b \in Bodies(n)} : n \in 0..MaxTop}

\* the example document of the specification: nested elements, text-only leaves
LibraryDoc ==
  Chars("<library><book><title>The Great Gatsby</title>"
        \o "<author>F. Scott Fitzgerald</author></book>"
        \o "<book><title>1984</title><author>George Orwell</author></book></library>")

\* a self-closing tag with one quoted attribute
RatingDoc == Chars("<rating value=\"4.5\" />")

\* inner text with spaces before and behind it
PaddedDoc == Chars("<t>  a b  </t>")

\* the document of the header's own test
InnerTextDoc ==
  Chars("<?xml version=\"1.0\" encoding=\"UTF-8\" ?><!-- Test comment -->"
        \o "<library>Test inner text</library>")

\* end tags without start tags
UnbalancedDoc == Chars("</a></a><b/>")

\* an end tag without a start tag, then an element
ExtraEndDoc == Chars("</a><b/>")

\* a tag, a comment, a processing instruction and an attribute value that the
\* end of the buffer cuts short
UnterminatedDocs == {Chars("<a"), Chars("<!-- c"), Chars("<?p"), Chars("<a k='v")}

\* a start tag with attributes whose '>' is the last byte of the buffer; every
\* scan of parse_tag finds the byte it looks for inside the buffer
StepOverDoc == Chars("<a k='='>")

\* the documents that are not well-formed
Malformed == {UnbalancedDoc, ExtraEndDoc, StepOverDoc} \cup UnterminatedDocs

\* a start tag with an attribute around whitespace only
EmptyAttrDoc == Chars("<a k='v'> </a>")

\* an element whose first content is a child element with text, then a sibling
NestedDoc == Chars("<a><i>xy</i><j/></a>")

\* an empty element, and the same with a comment or a processing instruction
\* before it, inside it and behind it
PlainDoc == Chars("<a></a>")
CommentedDocs ==
  {Chars("<!-- c --><a></a>"), Chars("<a><!-- c --></a>"),
   Chars("<a><?p?></a>"), Chars("<a></a><!-- c -->")}

Docs ==
  Generated \cup
  { [xml |-> LibraryDoc,    top |-> <<Chars("library")>>],
    [xml |-> RatingDoc,     top |-> <<Chars("rating")>>],
    [xml |-> PaddedDoc,     top |-> <<Chars("t")>>],
    [xml |-> InnerTextDoc,  top |-> <<Chars("library")>>],
    [xml |-> UnbalancedDoc, top |-> <<Chars("b")>>],
    [xml |-> ExtraEndDoc,   top |-> <<Chars("b")>>],
    [xml |-> EmptyAttrDoc,  top |-> <<Chars("a")>>],
    [xml |-> NestedDoc,     top |-> <<Chars("a")>>],
    [xml |-> StepOverDoc,   top |-> <<Chars("a")>>] }
  \cup {[xml |-> d, top |-> <<>>] : d \in UnterminatedDocs}
  \cup {[xml |-> d, top |-> <<Chars("a")>>] : d \in CommentedDocs}

(***************************************************************************)
(* The queries.  A query returns [status, val]: status "ok" with the value *)
(* returned, or "crash".  Where the C code has undefined behaviour the     *)
(* model gives the set of outcomes a build can produce.                    *)
(***************************************************************************)
Ok(v) == [status |-> "ok", val |-> v]
Crash == [status |-> "crash", val |-> NULL]

\* line 406: what xml_parse_string returns once its loop has ended, the root
xml_parse_string_return == Ok(1)

\* a pointer read from memory that holds no pointer of the tree: NULL, any
\* node, or an address that is no node (Len(ns) + 1)
WildPointers(ns) == 0..(Len(ns) + 1)

\* lines 147-151.  node is dereferenced unchecked; for len = 0 the bound
\* len - 1 wraps and data[index] is read although it holds no child
xml_node_child_at(ns, node, index) ==
  IF node = NULL THEN {Crash} \cup {Ok(q) : q \in WildPointers(ns)}
  ELSE LET list == ns[node].children IN
       IF index > SizeT(list.len - 1) THEN {Ok(NULL)}
       ELSE IF index < list.len THEN {Ok(list.data[index + 1])}
       ELSE IF index < list.size THEN {Ok(q) : q \in WildPointers(ns)}
       ELSE {Crash} \cup {Ok(q) : q \in WildPointers(ns)}

\* the loop of xml_node_attr gone wrong: a later pair of the same key wins
RECURSIVE attr_loop_last(_, _, _)
attr_loop_last(list, attr_key_, i) ==
  IF ~(i < list.len) THEN NullStr
  ELSE LET later == attr_loop_last(list, attr_key_, i + 1) IN
       IF later # NullStr THEN later
       ELSE IF strcmp0(list.data[i + 1].key, attr_key_) THEN list.data[i + 1].value
       ELSE NullStr

\* lines 203-208: the loop of xml_node_attr from index i
RECURSIVE attr_loop(_, _, _)
attr_loop(list, attr_key_, i) ==
  IF ~(i < list.len) THEN NullStr
  ELSE IF strcmp0(list.data[i + 1].key, attr_key_) THEN list.data[i + 1].value
  ELSE attr_loop(list, attr_key_, i + 1)

\* lines 200-209
xml_node_attr(ns, node, attr_key_) ==
  IF node = NULL \/ attr_key_ = NullStr THEN NullStr
  ELSE attr_loop(ns[node].attrs, attr_key_, 0)

\* lines 157-158 and 183-184: the tag test of both searches
tag_matches(tag, name, exact) ==
  (exact /\ strcmp0(tag, name)) \/ (~exact /\ strstr(tag, name))

\* lines 153-169, with find_tag_loop the loop of lines 161-166 from index i
RECURSIVE xml_node_find_tag(_, _, _, _)
RECURSIVE find_tag_loop(_, _, _, _, _)
xml_node_find_tag(ns, node, tag, exact) ==
  IF node = NULL \/ tag = NullStr THEN NULL
  ELSE IF ns[node].tag # NullStr /\ tag_matches(ns[node].tag, tag, exact) THEN node
  ELSE find_tag_loop(ns, node, tag, exact, 0)

\* the loop of lines 161-166 gone wrong: the children are searched last to first
RECURSIVE find_tag_loop_reverse(_, _, _, _, _)
find_tag_loop_reverse(ns, node, tag, exact, i) ==
  IF ~(i < ns[node].children.len) THEN NULL
  ELSE LET k      == ns[node].children.len - i
           result == xml_node_find_tag(ns, ns[node].children.data[k], tag, exact)
       IN  IF result # NULL THEN result
           ELSE find_tag_loop_reverse(ns, node, tag, exact, i + 1)

find_tag_loop(ns, node, tag, exact, i) ==
  IF ~(i < ns[node].children.len) THEN NULL
  ELSE LET result == xml_node_find_tag(ns, ns[node].children.data[i + 1], tag, exact) IN
       IF result # NULL THEN result
       ELSE find_tag_loop(ns, node, tag, exact, i + 1)

(***************************************************************************)
(* strtok and the path buffers.  A char * into a path buffer is            *)
(* [b |-> buffer, o |-> offset]; the NULL one is NullPtr.  A buffer is     *)
(* [data, freed], data holding its terminators.                            *)
(***************************************************************************)
NullPtr == [b |-> 0, o |-> 0]

\* *p
Deref(bs, p) == bs[p.b].data[p.o + 1]

\* the C string at p
RECURSIVE CStr(_, _)
CStr(bs, p) ==
  IF Deref(bs, p) = NUL THEN <<>>
  ELSE <<Deref(bs, p)>> \o CStr(bs, [p EXCEPT !.o = @ + 1])

\* strtok gone wrong: the delimiters in front of a token are not skipped
strspn_none(bs, s) == s

\* s + strspn(s, "/")
RECURSIVE strspn(_, _)
strspn(bs, s) ==
  IF Deref(bs, s) = "/" THEN strspn(bs, [s EXCEPT !.o = @ + 1]) ELSE s

\* the first "/" or terminator at or after s (strpbrk, or the end of the string)
RECURSIVE strpbrk(_, _)
strpbrk(bs, s) ==
  IF Deref(bs, s) \in {"/", NUL} THEN s ELSE strpbrk(bs, [s EXCEPT !.o = @ + 1])

\* strtok(str, "/") with the static save pointer save: the token, the buffers
\* after the terminator is written, and the save pointer after the call
strtok(bs, save, str) ==
  LET s   == strspn(bs, IF str = NullPtr THEN save ELSE str)
      end == strpbrk(bs, s)
  IN  IF Deref(bs, s) = NUL
      THEN [tok |-> NullPtr, bufs |-> bs, olds |-> s]
      ELSE IF Deref(bs, end) = NUL
      THEN [tok |-> s, bufs |-> bs, olds |-> end]
      ELSE [tok |-> s,
            bufs |-> [bs EXCEPT ![end.b].data[end.o + 1] = NUL],
            olds |-> [end EXCEPT !.o = @ + 1]]

\* strdup(path)
strdup(path) == [data |-> Append(path, NUL), freed |-> FALSE]

\* free(buf): the bytes are gone
free(buf) == [data |-> <<>>, freed |-> TRUE]

\* lines 181-189 gone wrong: without the break the last matching child is kept
RECURSIVE path_child_last(_, _, _, _, _)
path_child_last(ns, current, segment, exact, i) ==
  IF ~(i < ns[current].children.len) THEN NULL
  ELSE LET child == ns[current].children.data[i + 1]
           later == path_child_last(ns, current, segment, exact, i + 1)
       IN  IF later # NULL THEN later
           ELSE IF tag_matches(ns[child].tag, segment, exact) THEN child
           ELSE NULL

\* lines 181-189: the first child of current whose tag matches, from index i
RECURSIVE path_child(_, _, _, _, _)
path_child(ns, current, segment, exact, i) ==
  IF ~(i < ns[current].children.len) THEN NULL
  ELSE LET child == ns[current].children.data[i + 1] IN
       IF tag_matches(ns[child].tag, segment, exact) THEN child
       ELSE path_child(ns, current, segment, exact, i + 1)

\* lines 179-197: the loop of xml_node_find_by_path, run to its end by one
\* caller; yields the node returned and strtok's state when it returns
RECURSIVE path_loop(_, _, _, _, _, _)
path_loop(ns, bs, save, segment, current, exact) ==
  IF segment = NullPtr THEN [val |-> current, bufs |-> bs, olds |-> save]
  ELSE LET child == path_child(ns, current, CStr(bs, segment), exact, 0) IN
       IF child = NULL THEN [val |-> NULL, bufs |-> bs, olds |-> save]
       ELSE LET tk == strtok(bs, save, NullPtr) IN
            path_loop(ns, tk.bufs, tk.olds, tk.tok, child, exact)

\* lines 171-198, called with no other caller of strtok running
xml_node_find_by_path(ns, root, path, exact) ==
  IF root = NULL \/ path = NullStr
  THEN [val |-> NULL, bufs |-> bufs, olds |-> olds]
  ELSE LET bs == <<strdup(path)>>
           tk == strtok(bs, olds, [b |-> 1, o |-> 0])
           r  == path_loop(ns, tk.bufs, tk.olds, tk.tok, root, exact)
       IN  [r EXCEPT !.bufs[1] = free(@)]

\* lines 211-236: the heap after xml_node_free(node), for NULL or the root
xml_node_free(ns, node) == IF node = NULL THEN ns ELSE <<>>

\* lines 218-223: the blocks freed for the attributes from index i on
RECURSIVE free_attrs(_, _, _)
free_attrs(ns, node, i) ==
  IF ~(i < ns[node].attrs.len) THEN <<>>
  ELSE << <<"key", node, i>>, <<"value", node, i>>, <<"attr", node, i>> >>
       \o free_attrs(ns, node, i + 1)

\* lines 211-236: the blocks passed to free() by xml_node_free(node), in order,
\* with free_children the loop of lines 227-228 from index i
RECURSIVE xml_node_free_blocks(_, _)
RECURSIVE free_children(_, _, _)
xml_node_free_blocks(ns, node) ==
  IF node = NULL THEN <<>>
  ELSE (IF ns[node].text # NullStr THEN << <<"text", node>> >> ELSE <<>>)
       \o free_attrs(ns, node, 0)
       \o << <<"attrs->data", node>>, <<"attrs", node>> >>
       \o free_children(ns, node, 0)
       \o << <<"children->data", node>>, <<"children", node>> >>
       \o (IF ns[node].tag # NullStr THEN << <<"tag", node>> >> ELSE <<>>)
       \o << <<"node", node>> >>

free_children(ns, node, i) ==
  IF ~(i < ns[node].children.len) THEN <<>>
  ELSE xml_node_free_blocks(ns, ns[node].children.data[i + 1])
       \o free_children(ns, node, i + 1)

(***************************************************************************)
(* The state after construction.                                           *)
(***************************************************************************)
\* lines 380-381: the heap holding only ROOT
RootOnly == [xml_node_new(<<>>, NULL) EXCEPT ![1].tag = Chars("ROOT")]

NoCall == [op |-> "none"]
NoRet  == [status |-> "none", val |-> NULL]

QueryIdle == call = NoCall /\ ret = NoRet
ConcIdle  == thr = <<>> /\ bufs = <<>> /\ olds = NullPtr
LocalInit ==
  /\ tag_start = 0 /\ attr_start = 0 /\ value_start = 0 /\ text_start = 0
  /\ quote = NUL /\ attr_key = NullStr

\* lines 378-383: xml_parse_string entered with one of the documents
Init ==
  /\ \E d \in Docs : xml = d.xml /\ top = d.top
  /\ tail = <<>>
  /\ idx = 0
  /\ pc = "loop"
  /\ depth = 0
  /\ nodes = RootOnly
  /\ curr_node = 1
  \* lines 380-381: ROOT, its two lists and their data, and its tag
  /\ mallocs = 6
  /\ LocalInit
  /\ QueryIdle
  /\ ConcIdle

(***************************************************************************)
(* Queries of a finished tree by one caller.                               *)
(***************************************************************************)
Tags   == {Chars("a"), Chars("ab")}
Wanted == {Chars("a"), Chars("b"), Chars("ab")}
Keys   == {Chars("k"), Chars("j")}
Values == {Chars("1"), Chars("2")}

\* the parents of nodes 2..n of a tree of n nodes: node k + 1 hangs under p[k]
ParentVecs(n) == {p \in [1..(n - 1) -> 1..n] : \A k \in 1..(n - 1) : p[k] <= k}

\* the tree of the first k + 1 nodes, built as the scanner builds it
RECURSIVE BuildTo(_, _, _)
BuildTo(p, tg, k) ==
  IF k = 0 THEN RootOnly
  ELSE [xml_node_new(BuildTo(p, tg, k - 1), p[k]) EXCEPT ![k + 1].tag = tg[k]]

Trees ==
  UNION {{BuildTo(p, tg, n - 1) : p \in ParentVecs(n), tg \in [1..(n - 1) -> Tags]} :
           n \in 1..MaxNodes}

\* node 2 of a two-node tree given the attribute pairs as, in order
RECURSIVE AddAttrs(_, _)
AddAttrs(ns, as) ==
  IF as = <<>> THEN ns
  ELSE AddAttrs(xml_node_add_attr(ns, 2, as[1][1], as[1][2]), Tail(as))

AttrTrees ==
  UNION {{AddAttrs(BuildTo(<<1>>, <<Chars("a")>>, 1), as) :
            as \in [1..n -> Keys \X Values]} : n \in 0..MaxAttrs}

\* two sibling elements of the same name, the second with a child
SiblingTree == BuildTo(<<1, 1, 3>>, <<Chars("a"), Chars("a"), Chars("ab")>>, 3)

\* a match below the first child and another in the second child
DeepFirstTree == BuildTo(<<1, 1, 2>>, <<Chars("a"), Chars("ab"), Chars("ab")>>, 3)

\* a '/'-separated path of the segments segs
RECURSIVE Join(_)
Join(segs) ==
  IF segs = <<>> THEN <<>>
  ELSE IF Len(segs) = 1 THEN segs[1]
  ELSE segs[1] \o <<"/">> \o Join(Tail(segs))

SegSeqs == UNION {[1..n -> {Chars("a"), Chars("b")}] : n \in 1..MaxSegs}

\* the segments segs with sep between them
RECURSIVE JoinWith(_, _)
JoinWith(segs, sep) ==
  IF segs = <<>> THEN <<>>
  ELSE IF Len(segs) = 1 THEN segs[1]
  ELSE segs[1] \o sep \o JoinWith(Tail(segs), sep)

\* the ways of writing the path of the segments segs: with or without a '/'
\* in front and behind, and with one or two '/' between segments
Spellings(segs) ==
  {lead \o JoinWith(segs, sep) \o trail :
     lead \in {<<>>, <<"/">>}, sep \in {<<"/">>, <<"/", "/">>}, trail \in {<<>>, <<"/">>}}

QInit ==
  /\ nodes \in Trees \cup AttrTrees \cup {SiblingTree, DeepFirstTree}
  /\ xml = <<>> /\ top = <<>> /\ tail = <<>> /\ idx = 0 /\ pc = "done" /\ depth = 0
  /\ curr_node = 1
  /\ mallocs = Len(xml_node_free_blocks(nodes, 1))
  /\ LocalInit
  /\ QueryIdle
  /\ ConcIdle

\* the tree is built and the caller is between two queries
Built == pc = "done" /\ nodes # <<>> /\ call = NoCall

query_child_at ==
  /\ Built
  /\ \E node \in 0..Len(nodes), index \in 0..MaxIdx :
       /\ call' = [op |-> "child_at", node |-> node, index |-> index]
       /\ ret' \in xml_node_child_at(nodes, node, index)
  /\ UNCHANGED <<mallocs, scanv, nodes, localv, concv>>

query_attr ==
  /\ Built
  /\ \E node \in 0..Len(nodes), key \in Keys \cup {Chars("kj"), NullStr} :
       /\ call' = [op |-> "attr", node |-> node, key |-> key]
       /\ ret' = Ok(xml_node_attr(nodes, node, key))
  /\ UNCHANGED <<mallocs, scanv, nodes, localv, concv>>

query_find_tag ==
  /\ Built
  /\ \E node \in 0..Len(nodes), tag \in Wanted \cup {NullStr}, exact \in BOOLEAN :
       /\ call' = [op |-> "find_tag", node |-> node, tag |-> tag, exact |-> exact]
       /\ ret' = Ok(xml_node_find_tag(nodes, node, tag, exact))
  /\ UNCHANGED <<mallocs, scanv, nodes, localv, concv>>

query_find_by_path ==
  /\ Built
  /\ \E root \in 0..Len(nodes), segs \in SegSeqs \cup {<<>>, <<NullStr>>}, exact \in BOOLEAN :
     \E path \in IF segs = <<NullStr>> THEN {NullStr} ELSE Spellings(segs) :
       LET r == xml_node_find_by_path(nodes, root, path, exact)
       IN  /\ call' = [op |-> "find_by_path", node |-> root, path |-> path,
                       segs |-> segs, exact |-> exact]
           /\ ret' = Ok(r.val)
           /\ bufs' = r.bufs
           /\ olds' = r.olds
  /\ UNCHANGED <<mallocs, scanv, nodes, localv, thr>>

query_free ==
  /\ pc = "done" /\ call = NoCall
  /\ \E node \in {NULL, 1} :
       /\ node = NULL \/ nodes # <<>>
       /\ call' = [op |-> "free", node |-> node, heap |-> nodes]
       /\ ret' = Ok(NULL)
       /\ nodes' = xml_node_free(nodes, node)
       /\ mallocs' = mallocs - Len(xml_node_free_blocks(nodes, node))
  /\ UNCHANGED <<scanv, localv, concv>>

\* the caller has taken the result
query_return ==
  /\ call # NoCall /\ ret.status = "ok"
  /\ call' = NoCall /\ ret' = NoRet
  /\ UNCHANGED <<mallocs, scanv, nodes, localv, concv>>

QNext ==
  \/ query_return
  \/ query_child_at
  \/ query_attr
  \/ query_find_tag
  \/ query_find_by_path
  \/ query_free

SpecQuery == QInit /\ [][QNext]_vars

(***************************************************************************)
(* What the claims say of the queries, stated without the code's loops.    *)
(***************************************************************************)
Min(S) == CHOOSE x \in S : \A y \in S : x <= y

\* name occurs in tag as a run of consecutive characters
Contains(tag, name) ==
  \E k \in 0..(Len(tag) - Len(name)) : SubSeq(tag, k + 1, k + Len(name)) = name

\* tag matches name: equal if exact, containing it otherwise
Matches(tag, name, exact) == IF exact THEN tag = name ELSE Contains(tag, name)

\* the children of node, first to last
Kids(ns, node) == ns[node].children.data

\* the nodes of the subtree of node in depth-first pre-order
RECURSIVE PreOrder(_, _)
RECURSIVE PreOrderAll(_, _)
PreOrder(ns, node) == <<node>> \o PreOrderAll(ns, Kids(ns, node))
PreOrderAll(ns, kids) ==
  IF kids = <<>> THEN <<>>
  ELSE PreOrder(ns, kids[1]) \o PreOrderAll(ns, Tail(kids))

\* the node reached from node by taking, segment after segment, the first
\* matching child; NULL once a segment matches no child
RECURSIVE Walk(_, _, _, _)
Walk(ns, node, segs, exact) ==
  IF segs = <<>> THEN node
  ELSE LET hits == {k \in 1..Len(Kids(ns, node)) :
                      Matches(ns[Kids(ns, node)[k]].tag, segs[1], exact)}
       IN  IF hits = {} THEN NULL
           ELSE Walk(ns, Kids(ns, node)[Min(hits)], Tail(segs), exact)

\* some chain of matching children, first or not, spells the whole path
RECURSIVE SomeWalk(_, _, _, _)
SomeWalk(ns, node, segs, exact) ==
  IF segs = <<>> THEN TRUE
  ELSE \E k \in 1..Len(Kids(ns, node)) :
         /\ Matches(ns[Kids(ns, node)[k]].tag, segs[1], exact)
         /\ SomeWalk(ns, Kids(ns, node)[k], Tail(segs), exact)

\* C1: xml_node_child_at(node, idx) returns NULL for every idx at or beyond the
\* node's child count, idx = 0 on a childless node included.
C1_ChildAtBeyondCountIsNull ==
  (call.op = "child_at" /\ call.node # NULL
     /\ call.index >= nodes[call.node].children.len)
  => ret = Ok(NULL)

\* C6: xml_node_attr(node, key) returns the value of the lowest-index pair whose
\* key equals key, and NULL when no pair has that key.
C6_AttrFirstMatchWins ==
  (call.op = "attr" /\ call.node # NULL /\ call.key # NullStr)
  => LET pairs == nodes[call.node].attrs.data
         hits  == {k \in 1..Len(pairs) : pairs[k].key = call.key}
     IN  ret = Ok(IF hits = {} THEN NullStr ELSE pairs[Min(hits)].value)

\* C6 happens: a key held by two pairs of different values is looked up
C6_Witness ==
  /\ call.op = "attr" /\ call.node # NULL /\ call.key # NullStr
  /\ \E j, k \in 1..nodes[call.node].attrs.len :
       LET pairs == nodes[call.node].attrs.data IN
       /\ j < k /\ pairs[j].key = call.key /\ pairs[k].key = call.key
       /\ pairs[j].value # pairs[k].value
       /\ ret = Ok(pairs[j].value)

\* C7: xml_node_find_tag(node, name, exact) returns the first node of the subtree
\* in depth-first pre-order whose tag matches name, and NULL exactly when none does.
C7_FindTagFirstInPreOrder ==
  (call.op = "find_tag" /\ call.node # NULL /\ call.tag # NullStr)
  => LET order == PreOrder(nodes, call.node)
         hits  == {k \in 1..Len(order) : Matches(nodes[order[k]].tag, call.tag, call.exact)}
     IN  ret = Ok(IF hits = {} THEN NULL ELSE order[Min(hits)])

\* C7 happens: two nodes match by substring, and the one found lies deeper in the
\* tree and was created later than the other
C7_Witness ==
  /\ call.op = "find_tag" /\ call.node # NULL /\ call.tag # NullStr /\ ~call.exact
  /\ ret.val # NULL
  /\ \E other \in 1..Len(nodes) :
       /\ other < ret.val
       /\ other # call.node
       /\ nodes[other].parent = call.node
       /\ nodes[ret.val].parent # call.node
       /\ Contains(nodes[other].tag, call.tag)

\* C8: xml_node_find_by_path(root, s1/../sk, exact) moves, segment after segment,
\* to the first direct child whose tag matches, without backtracking: NULL as
\* soon as the node reached has no matching child, else the node reached last.
C8_FindByPathFirstChildNoBacktrack ==
  (call.op = "find_by_path" /\ call.node # NULL /\ call.path # NullStr)
  => ret = Ok(Walk(nodes, call.node, call.segs, call.exact))

\* C8 happens: the path fails although a later sibling of the child taken
\* would have led to a full match
C8_Witness ==
  /\ call.op = "find_by_path" /\ call.node # NULL /\ call.path # NullStr
  /\ Len(call.segs) > 1
  /\ ret = Ok(NULL)
  /\ SomeWalk(nodes, call.node, call.segs, call.exact)

\* C20: xml_node_find_by_path takes no segment from a leading, trailing or
\* repeated '/': the path returns the node its segments joined by single '/'
\* return, and a path without any segment returns root itself.
C20_EmptySegmentsIgnored ==
  (call.op = "find_by_path" /\ call.node # NULL /\ call.path # NullStr)
  => /\ ret = Ok(xml_node_find_by_path(nodes, call.node, Join(call.segs), call.exact).val)
     /\ call.segs = <<>> => ret = Ok(call.node)

\* C20 happens: a path of two segments written with a '/' in front, two between
\* and one behind leads to a grandchild of root
C20_Witness ==
  /\ call.op = "find_by_path" /\ call.node = 1 /\ call.path # NullStr
  /\ Len(call.segs) = 2
  /\ call.path = <<"/">> \o call.segs[1] \o <<"/", "/">> \o call.segs[2] \o <<"/">>
  /\ ret.status = "ok"
  /\ ret.val # NULL
  /\ nodes[ret.val].parent \notin {NULL, 1}

\* C9: every query returns NULL for a NULL node (and a NULL tag, path or key),
\* and xml_node_free(NULL) does nothing.
C9_NullArgumentsAnswered ==
  /\ (call.op \in {"child_at", "find_tag", "find_by_path"} /\ call.node = NULL)
       => ret = Ok(NULL)
  /\ (call.op = "find_tag" /\ call.tag = NullStr) => ret = Ok(NULL)
  /\ (call.op = "find_by_path" /\ call.path = NullStr) => ret = Ok(NULL)
  /\ (call.op = "attr" /\ (call.node = NULL \/ call.key = NullStr)) => ret = Ok(NullStr)
  /\ (call.op = "free" /\ call.node = NULL) => (ret = Ok(NULL) /\ nodes = call.heap)

(***************************************************************************)
(* Two threads querying one finished tree.  Each call of strtok is one     *)
(* step; strtok's save pointer olds is shared by all threads.              *)
(***************************************************************************)
Threads == {1, 2}

\* the queries a thread may run: a path lookup, or one of the other three
ConcCalls ==
  {[op |-> "find_by_path", node |-> 1, path |-> Join(segs), exact |-> e] :
     segs \in SegSeqs, e \in BOOLEAN}
  \cup {[op |-> "find_tag", node |-> 1, tag |-> Chars("ab"), exact |-> TRUE],
        [op |-> "attr", node |-> 2, key |-> Chars("k")],
        [op |-> "child_at", node |-> 1, index |-> 1]}

\* what a call returns when no other thread runs
Alone(ns, c) ==
  IF c.op = "find_by_path" THEN {Ok(xml_node_find_by_path(ns, c.node, c.path, c.exact).val)}
  ELSE IF c.op = "find_tag" THEN {Ok(xml_node_find_tag(ns, c.node, c.tag, c.exact))}
  ELSE IF c.op = "attr" THEN {Ok(xml_node_attr(ns, c.node, c.key))}
  ELSE xml_node_child_at(ns, c.node, c.index)

CInit ==
  /\ nodes \in {SiblingTree, DeepFirstTree}
  /\ xml = <<>> /\ top = <<>> /\ tail = <<>> /\ idx = 0 /\ pc = "done" /\ depth = 0
  /\ curr_node = 1
  /\ mallocs = Len(xml_node_free_blocks(nodes, 1))
  /\ LocalInit
  /\ QueryIdle
  /\ thr \in [Threads -> {[pc |-> "start", call |-> c, tree |-> nodes, segment |-> NullPtr,
                           current |-> NULL, ret |-> NoRet] : c \in ConcCalls}]
  /\ bufs = [t \in Threads |-> free(<<>>)]
  /\ olds = NullPtr

\* the thread ends with one of the outcomes of a read of freed memory
UseAfterFree(t, r) ==
  /\ thr' = [thr EXCEPT ![t].pc = "done", ![t].ret = r]
  /\ UNCHANGED <<bufs, olds>>

\* lines 147-151, 153-169, 200-209: a query that is one read of the tree
conc_query(t) ==
  /\ thr[t].pc = "start" /\ thr[t].call.op # "find_by_path"
  /\ \E r \in Alone(nodes, thr[t].call) :
       thr' = [thr EXCEPT ![t].pc = "done", ![t].ret = r]
  /\ UNCHANGED <<mallocs, scanv, nodes, localv, queryv, bufs, olds>>

\* lines 172-178: strdup, the first strtok, current = root
conc_path_start(t) ==
  /\ thr[t].pc = "start" /\ thr[t].call.op = "find_by_path"
  /\ LET bs == [bufs EXCEPT ![t] = strdup(thr[t].call.path)]
         tk == strtok(bs, olds, [b |-> t, o |-> 0])
     IN  /\ bufs' = tk.bufs
         /\ olds' = tk.olds
         /\ thr' = [thr EXCEPT ![t].pc = "search", ![t].segment = tk.tok,
                               ![t].current = thr[t].call.node]
  /\ UNCHANGED <<mallocs, scanv, nodes, localv, queryv>>

\* lines 179-193: the loop test and the search of the children for segment
conc_path_search(t) ==
  /\ thr[t].pc = "search"
  /\ \E r \in {Crash} \cup {Ok(q) : q \in WildPointers(nodes)} :
       IF thr[t].segment = NullPtr
       THEN /\ thr' = [thr EXCEPT ![t].pc = "free"]
            /\ UNCHANGED <<bufs, olds>>
       ELSE IF bufs[thr[t].segment.b].freed
       THEN UseAfterFree(t, r)
       ELSE LET child == path_child(nodes, thr[t].current,
                                    CStr(bufs, thr[t].segment), thr[t].call.exact, 0)
            IN  IF child = NULL
                THEN /\ bufs' = [bufs EXCEPT ![t] = free(@)]
                     /\ thr' = [thr EXCEPT ![t].pc = "done", ![t].ret = Ok(NULL)]
                     /\ UNCHANGED olds
                ELSE /\ thr' = [thr EXCEPT ![t].pc = "next", ![t].current = child]
                     /\ UNCHANGED <<bufs, olds>>
  /\ UNCHANGED <<mallocs, scanv, nodes, localv, queryv>>

\* line 194: strtok(NULL, "/") goes on from wherever olds points
conc_path_next(t) ==
  /\ thr[t].pc = "next"
  /\ \E r \in {Crash} \cup {Ok(q) : q \in WildPointers(nodes)} :
       IF bufs[olds.b].freed
       THEN UseAfterFree(t, r)
       ELSE LET tk == strtok(bufs, olds, NullPtr) IN
            /\ bufs' = tk.bufs
            /\ olds' = tk.olds
            /\ thr' = [thr EXCEPT ![t].pc = "search", ![t].segment = tk.tok]
  /\ UNCHANGED <<mallocs, scanv, nodes, localv, queryv>>

\* lines 196-197: free(tokenized_path), return current
conc_path_free(t) ==
  /\ thr[t].pc = "free"
  /\ bufs' = [bufs EXCEPT ![t] = free(@)]
  /\ thr' = [thr EXCEPT ![t].pc = "done", ![t].ret = Ok(thr[t].current)]
  /\ UNCHANGED <<mallocs, scanv, nodes, localv, queryv, olds>>

CNext ==
  \E t \in Threads :
    \/ conc_query(t)
    \/ conc_path_start(t)
    \/ conc_path_search(t)
    \/ conc_path_next(t)
    \/ conc_path_free(t)

SpecConc == CInit /\ [][CNext]_vars

\* C10: whatever the interleaving of two threads that each run a query of the
\* same finished tree, each call returns what it returns when run alone, and
\* the tree is unchanged.
C10_ConcurrentQueriesAsAlone ==
  \A t \in DOMAIN thr :
    thr[t].pc = "done" =>
      /\ thr[t].ret \in Alone(thr[t].tree, thr[t].call)
      /\ nodes = thr[t].tree

(***************************************************************************)
(* What the claims say of the tree xml_parse_string returns.               *)
(***************************************************************************)
\* xml_parse_string has returned, or the process has died in it
Finished == pc \in {"done", "crashed"}

\* s without its leading and its trailing whitespace
RECURSIVE TrimLeft(_)
TrimLeft(s) == IF s # <<>> /\ isspace(s[1]) THEN TrimLeft(Tail(s)) ELSE s
RECURSIVE TrimRight(_)
TrimRight(s) ==
  IF s # <<>> /\ isspace(s[Len(s)]) THEN TrimRight(SubSeq(s, 1, Len(s) - 1)) ELSE s
Trim(s) == TrimRight(TrimLeft(s))

\* the node found by xml_node_find_tag(root, name, exact = true)
FoundTag(name) == xml_node_find_tag(nodes, 1, Chars(name), TRUE)
\* the node found by xml_node_find_by_path(root, path, exact = true)
FoundPath(path) == xml_node_find_by_path(nodes, 1, Chars(path), TRUE).val

\* C2: after parsing the example document every element has one node whose tag
\* is the element's name and whose text is the element's text, so that
\* find_tag(root, "title") is the first title, "The Great Gatsby", and
\* find_by_path(root, "library/book/author") the first author, "F. Scott Fitzgerald".
C2_LibraryElementsFound ==
  (xml = LibraryDoc /\ Finished) =>
    /\ pc = "done"
    /\ Len(nodes) = 8
    /\ \A k \in 2..Len(nodes) :
         nodes[k].tag \in {Chars("library"), Chars("book"), Chars("title"), Chars("author")}
    /\ FoundTag("title") # NULL
    /\ nodes[FoundTag("title")].text = Chars("The Great Gatsby")
    /\ FoundPath("library/book/author") # NULL
    /\ nodes[FoundPath("library/book/author")].text = Chars("F. Scott Fitzgerald")

\* C3: a tag with quoted attributes records one (key, value) pair per attribute,
\* the value being the characters between the quotes: <rating value="4.5" />
\* yields a childless, textless node with the single pair ("value", "4.5").
C3_RatingAttributeRecorded ==
  xml = RatingDoc =>
    /\ \A k \in 1..Len(nodes) : \A a \in 1..nodes[k].attrs.len :
         nodes[k].attrs.data[a] = [key |-> Chars("value"), value |-> Chars("4.5")]
    /\ Finished =>
         /\ pc = "done"
         /\ Len(nodes) = 2
         /\ nodes[2].tag = Chars("rating")
         /\ nodes[2].children.len = 0
         /\ nodes[2].text = NullStr
         /\ nodes[2].attrs.len = 1
         /\ xml_node_attr(nodes, 2, Chars("value")) = Chars("4.5")

\* C4: for a well-formed input of N top-level elements the ROOT returned has
\* exactly N children, child i being the node of the i-th element.
C4_RootChildrenAreTopLevelElements ==
  (pc = "done" /\ xml \notin Malformed) =>
    /\ nodes[1].children.len = Len(top)
    /\ \A k \in 1..Len(top) :
         /\ Ok(nodes[1].children.data[k]) \in xml_node_child_at(nodes, 1, k - 1)
         /\ nodes[nodes[1].children.data[k]].tag = top[k]

\* the documents of one element holding text only, with that text
TextOnlyDocs ==
  { [xml |-> PaddedDoc,    content |-> Chars("  a b  ")],
    [xml |-> InnerTextDoc, content |-> Chars("Test inner text")] }

\* C5: the text of an element whose content is only text is that content without
\* its leading and trailing whitespace, and never holds the '<' that follows it.
C5_TextIsTrimmedContent ==
  \A d \in TextOnlyDocs :
    (xml = d.xml /\ Finished) =>
      /\ pc = "done"
      /\ Len(nodes) = 2
      /\ nodes[2].text = Trim(d.content)
      /\ \A k \in 1..Len(nodes[2].text) : nodes[2].text[k] # "<"

\* one self-closing element, in each of its forms
SelfClosingDocs ==
  {Chars("<a/>"), Chars("<a />"), Chars("<a k='v'/>"), Chars("<a k='v' j='w' />")}

\* C11: once the '>' of a self-closing tag is consumed the current node is again
\* the node that was current before the tag, and the tag's node has no children
\* and no text; the parse of such a document ends.
C11_SelfClosingPushPop ==
  xml \in SelfClosingDocs =>
    /\ idx >= Len(xml) =>
         /\ curr_node = 1
         /\ Len(nodes) = 2
         /\ nodes[2].children.len = 0
         /\ nodes[2].text = NullStr
    /\ Finished => pc = "done"

\* one element whose content is empty or whitespace only
BlankDocs == {PlainDoc, Chars("<a> </a>"), EmptyAttrDoc}

\* C12: an element whose content is empty or only whitespace has no text after
\* parsing, with or without attributes in its start tag.
C12_BlankContentHasNoText ==
  (xml \in BlankDocs /\ Finished) =>
    /\ pc = "done"
    /\ Len(nodes) = 2
    /\ nodes[2].text = NullStr

\* C13: xml_parse_string returns NULL when the input cannot be parsed, as with
\* a tag, comment, processing instruction or attribute value left unterminated.
C13_ErrorReturnsNull ==
  (xml \in UnterminatedDocs /\ Finished) =>
    /\ pc = "done"
    /\ xml_parse_string_return = Ok(NULL)

\* C14: on a well-formed document no scan loop reads a byte behind the
\* terminator, and the parse ends with the cursor on the terminator.
C14_NoReadBeyondTerminator ==
  xml \notin Malformed =>
    /\ tail = <<>>
    /\ pc # "crashed"
    /\ pc = "done" => idx = Len(xml)

\* C15: on a balanced document every end tag sets the current node to its
\* parent, so the current node is never NULL and is ROOT at the end of the buffer.
C15_EndTagsPopToParent ==
  xml \notin Malformed =>
    /\ curr_node # NULL
    /\ Finished => (pc = "done" /\ curr_node = 1)

\* C16: when the first content of an element is a child element, the parent gets
\* no text, the text the child got from its own body is never changed, and the
\* sibling that follows is parsed as a child element.
C16_ChildTextLeftAlone ==
  xml = NestedDoc =>
    /\ \A k \in 1..Len(nodes) : k # 3 => nodes[k].text = NullStr
    /\ Len(nodes) >= 3 => nodes[3].text \in {NullStr, Chars("xy")}
    /\ Finished =>
         /\ pc = "done"
         /\ Len(nodes) = 4
         /\ nodes[2].children.data = <<3, 4>>
         /\ nodes[3].text = Chars("xy")

\* the tree of one empty element a
PlainTree == BuildTo(<<1>>, <<Chars("a")>>, 1)

\* C17: a comment or processing instruction put before, inside or behind an
\* element leaves the parsed tree what it is without it: no node is created
\* for it and no text or attribute changes.
C17_CommentsLeaveTreeAlone ==
  /\ (xml = PlainDoc /\ Finished) => (pc = "done" /\ nodes = PlainTree)
  /\ xml \in CommentedDocs =>
       /\ Len(nodes) <= 2
       /\ Finished => (pc = "done" /\ nodes = PlainTree)

\* the number of times x occurs in seq
Count(seq, x) == Cardinality({i \in 1..Len(seq) : seq[i] = x})

\* C18: in every state of a parse, of unbalanced input too, ROOT has no parent
\* and every other node has one parent, occurs once in that parent's children,
\* in no other node's children, and is reachable from ROOT.
C18_TreeInvariant ==
  /\ nodes[1].parent = NULL
  /\ \A k \in 2..Len(nodes) :
       /\ nodes[k].parent \in 1..Len(nodes)
       /\ \A j \in 1..Len(nodes) :
            Count(Kids(nodes, j), k) = (IF j = nodes[k].parent THEN 1 ELSE 0)
       /\ \E i \in 1..Len(PreOrder(nodes, 1)) : PreOrder(nodes, 1)[i] = k

\* C19: xml_node_free(root) after the parse of a well-formed document releases
\* every block the parse allocated, each exactly once.
C19_FreeReleasesEverythingOnce ==
  (xml \notin Malformed /\ pc = "done") =>
    LET blocks == xml_node_free_blocks(nodes, 1) IN
    /\ \A i, j \in 1..Len(blocks) : i # j => blocks[i] # blocks[j]
    /\ Len(blocks) = mallocs

\* C21: the cursor only moves forward, one byte or more per iteration, so as
\* long as every inner scan has found its terminator inside the buffer (nothing
\* behind the terminator has been read) the outer loop tests a byte of the
\* buffer, and the parse ends on the terminator after at most Len(xml) + 1 advances.
C21_CursorStaysInBuffer ==
  tail = <<>> =>
    /\ pc = "loop" => idx <= Len(xml)
    /\ pc = "done" => idx = Len(xml)

Next ==
  \/ xml_parse_string_loop
  \/ xml_parse_string_spaces
  \/ parse_comment
  \/ parse_comment_scan
  \/ parse_processing_instruction
  \/ parse_processing_instruction_scan
  \/ parse_tag_spaces
  \/ parse_tag_end
  \/ parse_tag_name
  \/ parse_tag_open
  \/ parse_tag_text
  \/ parse_tag_self_closing
  \/ parse_tag_attr_spaces
  \/ parse_tag_attr_loop
  \/ parse_tag_attr_key
  \/ parse_tag_attr_quote
  \/ parse_tag_attr_value
  \/ parse_tag_attr_sep
  \/ Segfault

Spec == Init /\ [][Next]_vars

====
